---- MODULE Spec2Model ----
(***************************************************************************)
(* Model of marketing_kpi_toolkit.py: the KPI pipeline that main() runs    *)
(* on the cleaned 'sessions' and 'orders' tables:                          *)
(*   compute_daily_channel_kpis -> channel_summary -> simple_response_curve*)
(*                                                                         *)
(* A table is a record [cols, rows]: cols is the set of optional columns   *)
(* the DataFrame has, rows a sequence of records.  A numeric cell is an    *)
(* optional value: <<>> is a missing cell (NaN), <<v>> the number v.       *)
(* Amounts are integers (pence); a ratio is an exact rational, NaN or an   *)
(* infinity, as pandas' float division yields them.  Date and Channel      *)
(* (the group keys) are never missing: clean_sessions / clean_orders turn  *)
(* Channel into a string, and a run needs a valid time axis.               *)
(***************************************************************************)
EXTENDS Integers, Sequences, FiniteSets, TLC

\* ---- bounds of the input tables ----------------------------------------
MaxSessRows == 2
MaxOrderRows == 2
MaxDate == 2
MaxAmount == 2

\* Channel labels in Python's string order (groupby sorts its keys).
ChannelOrder == <<"All", "Email", "Paid">>
Channels == {ChannelOrder[i] : i \in DOMAIN ChannelOrder}
Dates == 1..MaxDate

VARIABLES sessions, orders, pc, daily, chan, fit, err
vars == <<sessions, orders, pc, daily, chan, fit, err>>

\* ---- optional numbers, float division ----------------------------------
NA == <<>>
Num(v) == <<v>>
IsNA(x) == x = <<>>
\* Series.fillna(v) on one cell
FillNaCell(x, v) == IF IsNA(x) THEN v ELSE x[1]

Abs(n) == IF n < 0 THEN -n ELSE n
RECURSIVE Gcd(_, _)
Gcd(a, b) == IF b = 0 THEN a ELSE Gcd(b, a % b)

NaN == [k |-> "nan", n |-> 0, d |-> 1]
Inf(sign) == [k |-> "inf", n |-> sign, d |-> 1]
\* the rational n/d, d # 0, in lowest terms with a positive denominator
Rat(n, d) ==
  LET g == Gcd(Abs(n), Abs(d))
      s == IF d < 0 THEN -1 ELSE 1
  IN [k |-> "num", n |-> (s * n) \div g, d |-> (s * d) \div g]
IsNum(q) == q.k = "num"
RatLess(p, q) == p.n * q.d < q.n * p.d
RatAdd(p, q) == Rat(p.n * q.d + q.n * p.d, p.d * q.d)

\* Series / Series on one cell: float division never raises; x/0 is +-inf
\* and 0/0 is NaN.
PdDiv(n, d) ==
  IF d # 0 THEN Rat(n, d)
  ELSE IF n = 0 THEN NaN
  ELSE Inf(IF n < 0 THEN -1 ELSE 1)

\* np.where(cond, x, y) on one cell: both branches are already computed.
NpWhere(cond, x, y) == IF cond THEN x ELSE y

\* One KPI cell: np.where(den > 0, num / den, np.nan)
GuardedRatioNonNeg(num, den) == NpWhere(den >= 0, PdDiv(num, den), NaN)
GuardedRatio(num, den) == NpWhere(den > 0, PdDiv(num, den), NaN)

\* sum of a column over the rows I, skipping missing cells ("sum" skips NaN)
RECURSIVE SumSkipNa(_, _)
SumSkipNa(col, I) ==
  IF I = {} THEN 0
  ELSE LET i == CHOOSE j \in I : TRUE
       IN FillNaCell(col[i], 0) + SumSkipNa(col, I \ {i})

\* sum of an integer field over all rows of a sequence
RECURSIVE SumField(_, _)
SumField(rows, f) ==
  IF rows = <<>> THEN 0
  ELSE rows[1][f] + SumField(Tail(rows), f)

Column(rows, c) == [i \in DOMAIN rows |-> rows[i][c]]

\* all (Date, Channel) keys in sorted order, and the sorted keys of a set
NChan == Len(ChannelOrder)
AllKeys ==
  [i \in 1..(MaxDate * NChan) |->
     <<((i - 1) \div NChan) + 1, ChannelOrder[((i - 1) % NChan) + 1]>>]
SortedKeys(K) == SelectSeq(AllKeys, LAMBDA k : k \in K)

\* ---- compute_daily_channel_kpis ----------------------------------------
Series(vals) == [kind |-> "series", vals |-> vals]
Scalar(v) == [kind |-> "scalar", vals |-> <<Num(v)>>]

\* DataFrame.get(col, default)
SGet(tbl, col, default) ==
  IF col \in tbl.cols THEN Series(Column(tbl.rows, col)) ELSE default

\* s.get("Adj_spend_gbp", s.get("Spend_gbp", 0.0))
SpendSource(s) == SGet(s, "Adj_spend_gbp", SGet(s, "Spend_gbp", Scalar(0)))

\* .fillna(0.0) exists on a Series only; on the float 0.0 it raises
\* AttributeError.
SpendRaises(s) == SpendSource(s).kind # "series"

\* s["Spend"] = (...).fillna(0.0)
SpendColumn(s) ==
  LET src == SpendSource(s).vals
  IN [i \in DOMAIN src |-> Num(FillNaCell(src[i], 0))]

SessKeys(s) == {<<s.rows[i].Date, s.rows[i].Channel>> : i \in DOMAIN s.rows}
SessGroup(s, k) ==
  {i \in DOMAIN s.rows : <<s.rows[i].Date, s.rows[i].Channel>> = k}

\* s.groupby(["Date","Channel"]).agg(Sessions=sum, Clicks=sum, Spend=sum)
SAgg(s) ==
  LET keys == SortedKeys(SessKeys(s))
  IN [j \in DOMAIN keys |->
        [Date |-> keys[j][1], Channel |-> keys[j][2],
         Sessions |-> SumSkipNa(Column(s.rows, "Sessions"), SessGroup(s, keys[j])),
         Clicks |-> SumSkipNa(Column(s.rows, "Clicks"), SessGroup(s, keys[j])),
         Spend |-> SumSkipNa(SpendColumn(s), SessGroup(s, keys[j]))]]

\* chan_col: "Channel_ft" if present, else "Channel", else None
ChanColPreferChannel(cols) ==
  IF "Channel" \in cols THEN "Channel"
  ELSE IF "Channel_ft" \in cols THEN "Channel_ft" ELSE "None"
ChanCol(cols) ==
  IF "Channel_ft" \in cols THEN "Channel_ft"
  ELSE IF "Channel" \in cols THEN "Channel" ELSE "None"

\* the grouping channel of every order row (o["Channel_ft"] = "All" when
\* chan_col is None)
ResolvedChannel(o) ==
  [i \in DOMAIN o.rows |->
     IF ChanCol(o.cols) = "None" THEN "All" ELSE o.rows[i][ChanCol(o.cols)]]

OrderKeys(o) == {<<o.rows[i].Date, ResolvedChannel(o)[i]>> : i \in DOMAIN o.rows}
OrderGroup(o, k) ==
  {i \in DOMAIN o.rows : <<o.rows[i].Date, ResolvedChannel(o)[i]>> = k}

\* "nunique": number of distinct non-missing values
CountRows(col, I) == Cardinality(I)
NUnique(col, I) == Cardinality({col[i][1] : i \in {j \in I : ~IsNA(col[j])}})

\* o.groupby(["Date", chan_col]).agg(Orders=nunique, Revenue=sum)
OAgg(o) ==
  LET keys == SortedKeys(OrderKeys(o))
  IN [j \in DOMAIN keys |->
        [Date |-> keys[j][1], Channel |-> keys[j][2],
         Orders |-> NUnique(Column(o.rows, "Order_id"), OrderGroup(o, keys[j])),
         Revenue |-> SumSkipNa(Column(o.rows, "Revenue_gbp"), OrderGroup(o, keys[j]))]]

\* pd.merge(s_agg, o_agg, on=["Date","Channel"], how="left"): every left row,
\* in the left order, with the order-side cells of the order group that has
\* the same key, or missing cells when there is none.
OMatch(oa, r) ==
  {j \in DOMAIN oa : oa[j].Date = r.Date /\ oa[j].Channel = r.Channel}
JoinRow(oa, r) ==
  [Date |-> r.Date, Channel |-> r.Channel,
   Sessions |-> r.Sessions, Clicks |-> r.Clicks, Spend |-> r.Spend,
   Orders |-> IF OMatch(oa, r) = {} THEN NA
              ELSE Num(oa[CHOOSE j \in OMatch(oa, r) : TRUE].Orders),
   Revenue |-> IF OMatch(oa, r) = {} THEN NA
               ELSE Num(oa[CHOOSE j \in OMatch(oa, r) : TRUE].Revenue)]
RightOnlyRow(r) ==
  [Date |-> r.Date, Channel |-> r.Channel,
   Sessions |-> 0, Clicks |-> 0, Spend |-> 0,
   Orders |-> Num(r.Orders), Revenue |-> Num(r.Revenue)]
MergeInner(sa, oa) ==
  SelectSeq([i \in DOMAIN sa |-> JoinRow(oa, sa[i])], LAMBDA r : ~IsNA(r.Orders))
MergeOuter(sa, oa) ==
  [i \in DOMAIN sa |-> JoinRow(oa, sa[i])] \o
  LET rest == SelectSeq(oa, LAMBDA r :
                 \A i \in DOMAIN sa :
                    ~(sa[i].Date = r.Date /\ sa[i].Channel = r.Channel))
  IN [j \in DOMAIN rest |-> RightOnlyRow(rest[j])]
Merge(sa, oa) == [i \in DOMAIN sa |-> JoinRow(oa, sa[i])]

\* .fillna({"Orders": 0, "Revenue": 0.0})
FillOrders(r) ==
  [r EXCEPT !.Orders = FillNaCell(r.Orders, 0),
            !.Revenue = FillNaCell(r.Revenue, 0)]

\* the five KPI columns of the daily table
WithKpis(r) ==
  [Date |-> r.Date, Channel |-> r.Channel,
   Sessions |-> r.Sessions, Clicks |-> r.Clicks, Spend |-> r.Spend,
   Orders |-> r.Orders, Revenue |-> r.Revenue,
   CVR |-> GuardedRatio(r.Orders, r.Clicks),
   CPC_calc |-> GuardedRatio(r.Spend, r.Clicks),
   CAC |-> GuardedRatio(r.Spend, r.Orders),
   AOV |-> GuardedRatio(r.Revenue, r.Orders),
   ROAS |-> GuardedRatio(r.Revenue, r.Spend)]

\* the table compute_daily_channel_kpis returns
DailyTable(s, o) ==
  LET m == Merge(SAgg(s), OAgg(o))
  IN [i \in DOMAIN m |-> WithKpis(FillOrders(m[i]))]

\* ---- channel_summary ----------------------------------------------------
ChanRows(df, c) == SelectSeq(df, LAMBDA r : r.Channel = c)

\* mean of the defined cells of a ratio column (Series.mean skips NaN)
RECURSIVE RatSum(_)
RatSum(qs) == IF qs = <<>> THEN Rat(0, 1) ELSE RatAdd(qs[1], RatSum(Tail(qs)))
MeanRatio(rows, f) ==
  LET qs == SelectSeq(Column(rows, f), IsNum)
  IN IF qs = <<>> THEN NaN
     ELSE Rat(RatSum(qs).n, RatSum(qs).d * Len(qs))

\* one row of agg: the channel's totals and the KPIs recomputed on them
ChannelRowMeanOfRatios(df, c) ==
  LET g == ChanRows(df, c)
  IN [Channel |-> c,
      Sessions |-> SumField(g, "Sessions"), Clicks |-> SumField(g, "Clicks"),
      Spend |-> SumField(g, "Spend"), Orders |-> SumField(g, "Orders"),
      Revenue |-> SumField(g, "Revenue"),
      CVR |-> MeanRatio(g, "CVR"), CPC |-> MeanRatio(g, "CPC_calc"),
      CAC |-> MeanRatio(g, "CAC"), AOV |-> MeanRatio(g, "AOV"),
      ROAS |-> MeanRatio(g, "ROAS")]
ChannelRow(df, c) ==
  LET g == ChanRows(df, c)
      t == [Sessions |-> SumField(g, "Sessions"), Clicks |-> SumField(g, "Clicks"),
            Spend |-> SumField(g, "Spend"), Orders |-> SumField(g, "Orders"),
            Revenue |-> SumField(g, "Revenue")]
  IN [Channel |-> c,
      Sessions |-> t.Sessions, Clicks |-> t.Clicks, Spend |-> t.Spend,
      Orders |-> t.Orders, Revenue |-> t.Revenue,
      CVR |-> GuardedRatio(t.Orders, t.Clicks),
      CPC |-> GuardedRatio(t.Spend, t.Clicks),
      CAC |-> GuardedRatio(t.Spend, t.Orders),
      AOV |-> GuardedRatio(t.Revenue, t.Orders),
      ROAS |-> GuardedRatio(t.Revenue, t.Spend)]

\* df.groupby("Channel", as_index=False).agg(...) with the KPI columns:
\* one row per channel of df, in sorted channel order
ChannelAgg(df) ==
  LET cs == SelectSeq(ChannelOrder,
                      LAMBDA c : \E i \in DOMAIN df : df[i].Channel = c)
  IN [j \in DOMAIN cs |-> ChannelRow(df, cs[j])]

\* agg.sort_values("ROAS", ascending=False): the rows with a defined ROAS in
\* descending order (ties keep their order), then the rows whose ROAS is NaN
\* (na_position defaults to "last").
RECURSIVE InsertDesc(_, _)
InsertDesc(sorted, r) ==
  IF sorted = <<>> THEN <<r>>
  ELSE IF RatLess(sorted[1].ROAS, r.ROAS) THEN <<r>> \o sorted
  ELSE <<sorted[1]>> \o InsertDesc(Tail(sorted), r)
RECURSIVE SortDesc(_)
SortDesc(rows) ==
  IF rows = <<>> THEN <<>>
  ELSE InsertDesc(SortDesc(SubSeq(rows, 1, Len(rows) - 1)), rows[Len(rows)])
SortValuesNaFirst(rows) ==
  SelectSeq(rows, LAMBDA r : ~IsNum(r.ROAS)) \o
  SortDesc(SelectSeq(rows, LAMBDA r : IsNum(r.ROAS)))
SortValuesDesc(rows) ==
  SortDesc(SelectSeq(rows, LAMBDA r : IsNum(r.ROAS))) \o
  SelectSeq(rows, LAMBDA r : ~IsNum(r.ROAS))

\* the table channel_summary returns
SummaryTable(df) == SortValuesDesc(ChannelAgg(df))

\* ---- simple_response_curve ----------------------------------------------
\* daily_df.groupby("Date").agg(Revenue=sum, Spend=sum).dropna(...): one row
\* per date of the daily table; the sums are never missing, so dropna keeps
\* every row.
DateTotals(df) ==
  LET ds == SelectSeq([d \in 1..MaxDate |-> d],
                      LAMBDA d : \E i \in DOMAIN df : df[i].Date = d)
  IN [j \in DOMAIN ds |->
        [Date |-> ds[j],
         Revenue |-> SumField(SelectSeq(df, LAMBDA r : r.Date = ds[j]), "Revenue"),
         Spend |-> SumField(SelectSeq(df, LAMBDA r : r.Date = ds[j]), "Spend")]]

\* if len(df) < 2 or df["Spend"].sum() == 0: return None, None, None
NoFitTooFewOnly(t) == Len(t) < 2
NoFit(t) == Len(t) < 2 \/ SumField(t, "Spend") = 0

RECURSIVE SumProd(_, _, _)
SumProd(rows, f, g) ==
  IF rows = <<>> THEN 0
  ELSE rows[1][f] * rows[1][g] + SumProd(Tail(rows), f, g)

\* b, a = np.polyfit(Spend, Revenue, 1): the least-squares line.  When all
\* Spend values are equal (to c # 0, as their sum is not 0) the system is
\* rank deficient and polyfit returns the minimum-norm solution of its
\* column-scaled system: a = mean(Revenue)/2, b = mean(Revenue)/(2c).
PolyFit(t) ==
  LET n == Len(t)
      sx == SumField(t, "Spend")
      sy == SumField(t, "Revenue")
      sxx == SumProd(t, "Spend", "Spend")
      sxy == SumProd(t, "Spend", "Revenue")
      den == n * sxx - sx * sx
  IN IF den # 0
     THEN [defined |-> TRUE, a |-> Rat(sy * sxx - sx * sxy, den),
           b |-> Rat(n * sxy - sx * sy, den)]
     ELSE [defined |-> TRUE, a |-> Rat(sy, 2 * n),
           b |-> PdDiv(sy, 2 * n * t[1].Spend)]

None == [defined |-> FALSE, a |-> NaN, b |-> NaN]
ResponseCurve(df) ==
  IF NoFit(DateTotals(df)) THEN None ELSE PolyFit(DateTotals(df))

\* ---- input tables ---------------------------------------------------------
\* The runs start from cleaned tables of a few shapes, each varying the cells
\* one part of the pipeline depends on.
SeqsUpTo(S, n) == UNION {[1..k -> S] : k \in 0..n}

Amounts == {Num(v) : v \in 0..MaxAmount}
\* a table of n rows has at most n distinct Order_ids
OrderIds == {Num(v) : v \in 1..MaxOrderRows}
\* the cell of a column the table does not have
NoCell == NA
NoLabel == "-"

SessRows(ds, chs, clicks, adjs, raws) ==
  [Date : ds, Channel : chs, Sessions : {Num(1)}, Clicks : clicks,
   Adj_spend_gbp : adjs, Spend_gbp : raws]
SessTables(cols, R) ==
  {[cols |-> cols, rows |-> r] : r \in SeqsUpTo(R, MaxSessRows)}

OrderRows(ds, fts, chs, ids, revs) ==
  [Date : ds, Channel_ft : fts, Channel : chs, Order_id : ids,
   Revenue_gbp : revs]
OrderTables(cols, R, n) ==
  {[cols |-> cols, rows |-> r] : r \in SeqsUpTo(R, n)}

\* orders with at most one row, whose Order_id or Revenue may be missing
FewOrders ==
  OrderTables({"Channel_ft"},
              OrderRows({1}, {"Paid"}, {NoLabel}, {NA, Num(1)}, {NA, Num(2)}), 1)

\* orders with at most one row and no missing cell
PlainOrders ==
  OrderTables({"Channel_ft"},
              OrderRows({1}, {"Paid"}, {NoLabel}, {Num(1)}, {Num(2)}), 1)

\* sessions whose Clicks vary (missing, negative, zero, positive)
ClickInputs ==
  SessTables({"Adj_spend_gbp"},
             SessRows({1}, {"Paid"}, {NA, Num(-1), Num(0), Num(1)},
                      {Num(1)}, {NoCell}))
  \X FewOrders

\* sessions with every combination of the two spend columns
SpendCells(cols, c, vals) == IF c \in cols THEN vals ELSE {NoCell}
SpendSessions ==
  UNION {SessTables(cols,
            SessRows({1}, {"Paid"}, {Num(1)},
                     SpendCells(cols, "Adj_spend_gbp", {NA, Num(-1)} \cup Amounts),
                     SpendCells(cols, "Spend_gbp", {NA, Num(1)})))
         : cols \in SUBSET {"Adj_spend_gbp", "Spend_gbp"}}
SpendInputs == SpendSessions \X PlainOrders

\* sessions of one day in the channels chs
Day1Sessions(chs) ==
  SessTables({"Adj_spend_gbp"},
             SessRows({1}, chs, {Num(1)}, {Num(1)}, {NoCell}))

\* sessions of one day in two channels, orders of any day with repeated
\* Order_ids
JoinInputs ==
  Day1Sessions({"All", "Paid"})
  \X OrderTables({"Channel_ft"},
                 OrderRows(Dates, {"Paid"}, {NoLabel}, OrderIds, {Num(1)}),
                 MaxOrderRows)

\* orders with every combination of the two channel columns
LabelCells(cols, c) == IF c \in cols THEN {"All", "Paid"} ELSE {NoLabel}
ChannelOrders ==
  UNION {OrderTables(cols,
            OrderRows({1}, LabelCells(cols, "Channel_ft"),
                      LabelCells(cols, "Channel"), {Num(1)}, {Num(1)}),
            MaxOrderRows)
         : cols \in SUBSET {"Channel_ft", "Channel"}}
ChannelInputs == Day1Sessions({"All", "Paid"}) \X ChannelOrders

\* sessions of one channel whose Spend varies over the dates
FitInputs ==
  SessTables({"Adj_spend_gbp"},
             SessRows(Dates, {"Paid"}, {Num(1)}, {Num(-1)} \cup Amounts, {NoCell}))
  \X PlainOrders

\* sessions of one day whose Spend varies over the channels
RankInputs ==
  SessTables({"Adj_spend_gbp"},
             SessRows({1}, Channels, {Num(1)}, Amounts, {NoCell}))
  \X OrderTables({"Channel_ft"},
                 OrderRows({1}, Channels, {NoLabel}, {Num(1)}, {Num(1)}), 1)

Inputs ==
  ClickInputs \cup SpendInputs \cup JoinInputs \cup ChannelInputs
  \cup FitInputs \cup RankInputs

\* ---- the run: main() after load_data and the two clean_ functions -------
Init ==
  /\ \E inp \in Inputs : sessions = inp[1] /\ orders = inp[2]
  /\ pc = "start"
  /\ daily = <<>>
  /\ chan = <<>>
  /\ fit = None
  /\ err = "none"

\* daily = compute_daily_channel_kpis(sessions, orders)
compute_daily_channel_kpis ==
  /\ pc = "start"
  /\ ~SpendRaises(sessions)
  /\ daily' = DailyTable(sessions, orders)
  /\ pc' = "daily"
  /\ UNCHANGED <<sessions, orders, chan, fit, err>>

\* the same call when .fillna is applied to the float default: the
\* AttributeError ends the run
compute_daily_channel_kpis_raises ==
  /\ pc = "start"
  /\ SpendRaises(sessions)
  /\ err' = "AttributeError"
  /\ pc' = "raised"
  /\ UNCHANGED <<sessions, orders, daily, chan, fit>>

\* chan = channel_summary(daily)
channel_summary ==
  /\ pc = "daily"
  /\ chan' = SummaryTable(daily)
  /\ pc' = "summary"
  /\ UNCHANGED <<sessions, orders, daily, fit, err>>

\* a, b, fit_plot_path = simple_response_curve(daily, args.out)
simple_response_curve ==
  /\ pc = "summary"
  /\ fit' = ResponseCurve(daily)
  /\ pc' = "done"
  /\ UNCHANGED <<sessions, orders, daily, chan, err>>

Next ==
  \/ compute_daily_channel_kpis
  \/ compute_daily_channel_kpis_raises
  \/ channel_summary
  \/ simple_response_curve

Spec == Init /\ [][Next]_vars

TypeOK ==
  /\ pc \in {"start", "daily", "summary", "done", "raised"}
  /\ err \in {"none", "AttributeError"}
  /\ pc = "raised" <=> err = "AttributeError"

\* ---- properties ------------------------------------------------------------
DailyDone == pc \in {"daily", "summary", "done"}
SummaryDone == pc \in {"summary", "done"}
DailyKey(i) == <<daily[i].Date, daily[i].Channel>>

\* the channel an order row is grouped under, read off the orders table
ExpChannel(i) ==
  IF "Channel_ft" \in orders.cols THEN orders.rows[i].Channel_ft
  ELSE IF "Channel" \in orders.cols THEN orders.rows[i].Channel
  ELSE "All"
ExpOrderRows(k) ==
  {i \in DOMAIN orders.rows : orders.rows[i].Date = k[1] /\ ExpChannel(i) = k[2]}
ExpOrderIds(k) ==
  {orders.rows[i].Order_id[1] :
     i \in {j \in ExpOrderRows(k) : orders.rows[j].Order_id # NA}}
ExpRevenue(k) == SumSkipNa(Column(orders.rows, "Revenue_gbp"), ExpOrderRows(k))
ExpRatio(num, den) == IF den > 0 THEN Rat(num, den) ELSE NaN

\* C1: the daily table has exactly one row for every (Date, Channel) pair of
\* the sessions rows and no other row; a row whose pair has no order group
\* has Orders = 0 and Revenue = 0.
C1_LeftJoinComplete ==
  DailyDone =>
    /\ \A k \in SessKeys(sessions) :
         Cardinality({i \in DOMAIN daily : DailyKey(i) = k}) = 1
    /\ \A i \in DOMAIN daily : DailyKey(i) \in SessKeys(sessions)
    /\ \A i \in DOMAIN daily :
         ExpOrderRows(DailyKey(i)) = {} =>
           daily[i].Orders = 0 /\ daily[i].Revenue = 0

\* a run with a matched pair, an unmatched pair, and orders outside sessions
C1_Witness ==
  /\ DailyDone
  /\ \E i, j \in DOMAIN daily :
       /\ ExpOrderRows(DailyKey(i)) = {} /\ daily[i].Orders = 0
       /\ ExpOrderRows(DailyKey(j)) # {} /\ daily[j].Orders > 0
  /\ \E n \in DOMAIN orders.rows :
       <<orders.rows[n].Date, ExpChannel(n)>> \notin SessKeys(sessions)

\* C2: every KPI of a channel_summary row is the ratio of the channel's
\* totals over all dates, under the denominator > 0 guard.
ChanTotal(c, f) == SumField(SelectSeq(daily, LAMBDA r : r.Channel = c), f)
C2_RatioOfSums ==
  SummaryDone =>
    \A i \in DOMAIN chan :
      LET c == chan[i].Channel IN
      /\ chan[i].CVR = ExpRatio(ChanTotal(c, "Orders"), ChanTotal(c, "Clicks"))
      /\ chan[i].CPC = ExpRatio(ChanTotal(c, "Spend"), ChanTotal(c, "Clicks"))
      /\ chan[i].CAC = ExpRatio(ChanTotal(c, "Spend"), ChanTotal(c, "Orders"))
      /\ chan[i].AOV = ExpRatio(ChanTotal(c, "Revenue"), ChanTotal(c, "Orders"))
      /\ chan[i].ROAS = ExpRatio(ChanTotal(c, "Revenue"), ChanTotal(c, "Spend"))

\* a channel with two days of defined ROAS whose mean differs from the ROAS
\* of the totals
C2_Witness ==
  /\ SummaryDone
  /\ \E i \in DOMAIN chan :
       LET g == ChanRows(daily, chan[i].Channel) IN
       /\ Len(g) >= 2
       /\ \A j \in DOMAIN g : IsNum(g[j].ROAS)
       /\ IsNum(chan[i].ROAS)
       /\ chan[i].ROAS # MeanRatio(g, "ROAS")

\* C3: in every daily row each ratio is missing exactly when its denominator
\* is <= 0, is the quotient otherwise, and is never an infinity.
KpiOk(q, num, den) ==
  /\ q.k # "inf"
  /\ (q.k = "nan") <=> (den <= 0)
  /\ den > 0 => q = Rat(num, den)
C3_GuardedRatios ==
  DailyDone =>
    \A i \in DOMAIN daily :
      LET r == daily[i] IN
      /\ KpiOk(r.CVR, r.Orders, r.Clicks)
      /\ KpiOk(r.CPC_calc, r.Spend, r.Clicks)
      /\ KpiOk(r.CAC, r.Spend, r.Orders)
      /\ KpiOk(r.AOV, r.Revenue, r.Orders)
      /\ KpiOk(r.ROAS, r.Revenue, r.Spend)

\* a row whose Clicks total is 0 (its cells are missing) and whose Orders
\* count is 0 although its order group has Revenue (the Order_id is missing):
\* the unguarded quotients Spend / Clicks and Revenue / Orders are infinite
C3_Witness ==
  /\ DailyDone
  /\ \E n \in DOMAIN sessions.rows : sessions.rows[n].Clicks = NA
  /\ \E i \in DOMAIN daily :
       /\ daily[i].Clicks = 0 /\ daily[i].Spend > 0
       /\ PdDiv(daily[i].Spend, daily[i].Clicks).k = "inf"
       /\ daily[i].CPC_calc = NaN
       /\ daily[i].Orders = 0 /\ daily[i].Revenue > 0
       /\ daily[i].AOV = NaN

\* a row with a negative Clicks total
C3_WitnessNegative ==
  /\ DailyDone
  /\ \E i \in DOMAIN daily : daily[i].Clicks < 0 /\ daily[i].CVR = NaN

\* C4: Orders of a daily row is the number of distinct Order_id values of its
\* order group, and repeating an order row of a group (an Order_id that the
\* group already has) leaves the group's Orders unchanged and adds the row's
\* Revenue to the group's Revenue.
OAggAt(o, k) ==
  LET oa == OAgg(o) IN oa[CHOOSE j \in DOMAIN oa : <<oa[j].Date, oa[j].Channel>> = k]
C4_DistinctOrderIds ==
  DailyDone =>
    /\ \A i \in DOMAIN daily :
         /\ daily[i].Orders = Cardinality(ExpOrderIds(DailyKey(i)))
         /\ daily[i].Revenue = ExpRevenue(DailyKey(i))
    /\ \A n \in DOMAIN orders.rows :
         LET r == orders.rows[n]
             k == <<r.Date, ExpChannel(n)>>
             more == [orders EXCEPT !.rows = Append(@, r)]
         IN r.Order_id # NA =>
              /\ OAggAt(more, k).Orders = OAggAt(orders, k).Orders
              /\ OAggAt(more, k).Revenue =
                   OAggAt(orders, k).Revenue + FillNaCell(r.Revenue_gbp, 0)

\* a matched order group with two rows of the same Order_id
C4_Witness ==
  /\ DailyDone
  /\ \E i \in DOMAIN daily :
       /\ Cardinality(ExpOrderRows(DailyKey(i))) = 2
       /\ daily[i].Orders = 1
       /\ daily[i].Revenue = 2

\* C5: channel_summary's rows are in descending ROAS order, and every row
\* with an undefined ROAS comes after every row with a defined ROAS.
C5_SortedByRoas ==
  SummaryDone =>
    \A i, j \in DOMAIN chan :
      i < j =>
        /\ IsNum(chan[i].ROAS) /\ IsNum(chan[j].ROAS)
             => ~RatLess(chan[i].ROAS, chan[j].ROAS)
        /\ ~(~IsNum(chan[i].ROAS) /\ IsNum(chan[j].ROAS))

\* a summary that the sort reordered: the channel that sorts first by name
\* has an undefined ROAS and ends up last
C5_Witness ==
  /\ SummaryDone
  /\ Len(chan) >= 2
  /\ ~IsNum(ChannelAgg(daily)[1].ROAS)
  /\ IsNum(chan[1].ROAS)
  /\ chan[Len(chan)] = ChannelAgg(daily)[1]

\* a summary with two defined ROAS values that the sort swapped
C5_WitnessSwap ==
  /\ SummaryDone
  /\ Len(chan) = 2
  /\ RatLess(chan[2].ROAS, chan[1].ROAS)
  /\ chan[1] = ChannelAgg(daily)[2]

\* C6 (as claimed): the Spend of every daily row is the sum over its session
\* rows of the adjusted spend when present and not missing, otherwise the raw
\* spend when present and not missing, otherwise 0.
ClaimedSpend(s, i) ==
  IF "Adj_spend_gbp" \in s.cols /\ s.rows[i].Adj_spend_gbp # NA
  THEN s.rows[i].Adj_spend_gbp
  ELSE IF "Spend_gbp" \in s.cols /\ s.rows[i].Spend_gbp # NA
  THEN s.rows[i].Spend_gbp
  ELSE Num(0)
C6_RowLevelFallback ==
  DailyDone =>
    \A i \in DOMAIN daily :
      daily[i].Spend =
        SumSkipNa([n \in DOMAIN sessions.rows |-> ClaimedSpend(sessions, n)],
                  SessGroup(sessions, DailyKey(i)))

\* C7 (as claimed): without both spend columns the call does not raise and
\* every daily row has Spend = 0 and an undefined ROAS.
C7_NoSpendColumns ==
  (pc # "start" /\ sessions.cols \cap {"Adj_spend_gbp", "Spend_gbp"} = {}) =>
    /\ err = "none"
    /\ DailyDone
    /\ \A i \in DOMAIN daily : daily[i].Spend = 0 /\ daily[i].ROAS = NaN

\* C8: order rows are grouped under Channel_ft if the orders table has that
\* column, else under Channel if it has that one, else under "All": the
\* Orders and Revenue of a daily row are those of the order rows with its
\* Date and that channel, and without both columns only "All" rows get any.
C8_ChannelResolution ==
  DailyDone =>
    /\ \A i \in DOMAIN daily :
         /\ daily[i].Orders = Cardinality(ExpOrderIds(DailyKey(i)))
         /\ daily[i].Revenue = ExpRevenue(DailyKey(i))
         /\ (orders.cols \cap {"Channel_ft", "Channel"} = {}
               /\ daily[i].Channel # "All")
              => daily[i].Orders = 0 /\ daily[i].Revenue = 0
    /\ \A n \in DOMAIN orders.rows : ResolvedChannel(orders)[n] = ExpChannel(n)
    /\ orders.cols \cap {"Channel_ft", "Channel"} = {}
         => \A j \in DOMAIN OAgg(orders) : OAgg(orders)[j].Channel = "All"

\* an orders table without channel columns whose rows were joined to the
\* sessions of channel "All"
C8_Witness ==
  /\ DailyDone
  /\ orders.cols \cap {"Channel_ft", "Channel"} = {}
  /\ \E i \in DOMAIN daily : daily[i].Channel = "All" /\ daily[i].Orders > 0
  /\ \E i \in DOMAIN daily : daily[i].Channel # "All"

\* an orders table with both columns, where a row's two labels differ and
\* the row was counted under its Channel_ft label
C8_WitnessPriority ==
  /\ DailyDone
  /\ orders.cols = {"Channel_ft", "Channel"}
  /\ \E n \in DOMAIN orders.rows : \E i \in DOMAIN daily :
       /\ orders.rows[n].Channel_ft # orders.rows[n].Channel
       /\ DailyKey(i) = <<orders.rows[n].Date, orders.rows[n].Channel_ft>>
       /\ daily[i].Orders > 0

\* C9: the fit is undefined exactly when the daily table has fewer than 2
\* dates or its Spend sums to 0; otherwise intercept and slope are numbers.
DailyDates == {daily[i].Date : i \in DOMAIN daily}
C9_DegenerateFit ==
  pc = "done" =>
    /\ (fit = None) <=>
         (Cardinality(DailyDates) < 2 \/ SumField(daily, "Spend") = 0)
    /\ fit # None => fit.defined /\ IsNum(fit.a) /\ IsNum(fit.b)

\* two dates whose Spend is 0 on every row: no fit
C9_Witness ==
  /\ pc = "done"
  /\ Cardinality(DailyDates) = 2
  /\ \A i \in DOMAIN daily : daily[i].Spend = 0
  /\ fit = None

\* a single date with spend: no fit
C9_WitnessSingle ==
  /\ pc = "done"
  /\ Cardinality(DailyDates) = 1
  /\ SumField(daily, "Spend") > 0
  /\ fit = None

\* two dates with different Spend: a fit
C9_WitnessFit ==
  /\ pc = "done"
  /\ Cardinality(DailyDates) = 2
  /\ fit.defined /\ fit.b # Rat(0, 1)

\* C10: the Revenue and Orders totals of the daily table, and of the channel
\* summary, are those of the order groups whose key occurs in sessions;
\* without a channel column only sessions of channel "All" receive orders.
RECURSIVE SumOverKeys(_, _)
SumOverKeys(F(_), K) ==
  IF K = {} THEN 0
  ELSE LET k == CHOOSE x \in K : TRUE IN F(k) + SumOverKeys(F, K \ {k})
ExpOrderCount(k) == Cardinality(ExpOrderIds(k))
OrdersRevenueTotal == SumSkipNa(Column(orders.rows, "Revenue_gbp"), DOMAIN orders.rows)
C10_UnmatchedOrdersDropped ==
  SummaryDone =>
    /\ SumField(daily, "Revenue") = SumOverKeys(ExpRevenue, SessKeys(sessions))
    /\ SumField(daily, "Orders") = SumOverKeys(ExpOrderCount, SessKeys(sessions))
    /\ SumField(chan, "Revenue") = SumField(daily, "Revenue")
    /\ SumField(chan, "Orders") = SumField(daily, "Orders")
    /\ orders.cols \cap {"Channel_ft", "Channel"} = {} =>
         \A i \in DOMAIN daily :
           daily[i].Channel # "All" => daily[i].Orders = 0 /\ daily[i].Revenue = 0

\* orders without a channel column and sessions without an "All" channel:
\* the daily table has rows but none of the orders' Revenue
C10_Witness ==
  /\ SummaryDone
  /\ orders.cols \cap {"Channel_ft", "Channel"} = {}
  /\ Len(daily) > 0
  /\ OrdersRevenueTotal > 0
  /\ SumField(chan, "Revenue") = 0

\* some orders matched and some did not: the total is strictly smaller
C10_WitnessPartial ==
  /\ SummaryDone
  /\ 0 < SumField(daily, "Revenue")
  /\ SumField(daily, "Revenue") < OrdersRevenueTotal

====
